---- MODULE Spec2Model ----
(***************************************************************************)
(* Model of the goa DSL evaluation engine (package eval): RunDSL and its   *)
(* three phases (runSet, validateSet, finalizeSet), Execute, Current,      *)
(* ReportError and the ValidationErrors aggregate.                         *)
(*                                                                         *)
(* Context.Errors is an error interface value: nil until the first Record. *)
(* Record never stores an empty MultiError, so the model writes nil as the *)
(* empty sequence.  A string built by concatenation is written as the      *)
(* sequence of its pieces.                                                 *)
(***************************************************************************)
EXTENDS Integers, Sequences, FiniteSets, TLC

\* ---------------------------------------------------------------- bounds
\* ReportError calls made at top level (declaration time) before RunDSL
MaxDeclErrors == 1
\* operations the deferred initializers of one run perform in total
MaxOps == 3
\* nesting depth of Execute
MaxDepth == 2
\* expressions appended to sets by deferred initializers
MaxNewExprs == 1
\* errors in a ValidationErrors filled on its own
MaxErrors == 3

\* ------------------------------------------------------- program constants
\* the iteration cap of both growth loops
MaxRecursed == 100

\* ------------------------------------------------------------ expressions
RootIds == {1, 2, 3}

\* full: Source with a DSL, Validator, Finalizer;  nildsl: Source whose DSL()
\* returns nil, Validator;  fin: Finalizer only;  plain: only EvalName
Kinds == {"full", "nildsl", "fin", "plain"}

Names == <<"resource bottle", "", "type Bottle", "attribute name">>

NewExpr(id, kind) ==
    [id |-> id, kind |-> kind, name |-> Names[((id - 1) % Len(Names)) + 1]]

\* the nil Expr
NilExpr == [id |-> 0 - 2, kind |-> "nil", name |-> ""]

Top == [id |-> 0 - 1, kind |-> "top", name |-> "top-level"]

\* the expression a DSL function hands to a nested Execute
AttrExpr == [id |-> 0, kind |-> "plain", name |-> "attribute"]

EvalName(e) == e.name

IsSource(e) == e.kind \in {"full", "nildsl"}

\* source.DSL() # nil
HasDSL(e) == e.kind = "full"

IsValidator(e) == e.kind \in {"full", "nildsl"}

IsFinalizer(e) == e.kind \in {"full", "fin"}

\* ----------------------------------------------------------- error values
Nil == <<>>

EmptyVerr == [Errors |-> <<>>, Exprs |-> <<>>]

ReportRecord(msg) == [kind |-> "report", msg |-> msg, verr |-> EmptyVerr]

ValidationRecord(verr) == [kind |-> "validation", msg |-> <<>>, verr |-> verr]

Formats == {"bad value", "unknown view"}

\* DSLContext.Record
Record(errs, e) == Append(errs, e)

\* Stack.Current
StackCurrent(stack) == IF stack = <<>> THEN NilExpr ELSE stack[Len(stack)]

CurrentOf(stack) ==
    LET current == StackCurrent(stack)
    IN  IF current = NilExpr THEN Top ELSE current

\* mutant: the suffix names the outermost expression of the stack
Suffix_outermost(stack) ==
    IF stack # <<>>
    THEN IF EvalName(stack[1]) # "" THEN <<" in ", EvalName(stack[1])>> ELSE <<>>
    ELSE <<" (top level)">>

\* the suffix ReportError adds to the format
Suffix(stack) ==
    LET cur == StackCurrent(stack)
    IN  IF cur # NilExpr
        THEN IF EvalName(cur) # "" THEN <<" in ", EvalName(cur)>> ELSE <<>>
        ELSE <<" (top level)">>

\* the record ReportError builds (the file and line of the caller play no
\* part in the engine and are left out)
ReportErrorRecord(stack, fm) == ReportRecord(<<fm>> \o Suffix(stack))

\* mutant: only the first error is kept
ReportError_first(errs, stack, fm) ==
    IF errs = Nil THEN Record(errs, ReportErrorRecord(stack, fm)) ELSE errs

\* mutant: the new record replaces the collection
ReportError_reset(errs, stack, fm) == <<ReportErrorRecord(stack, fm)>>

\* Context.Errors after ReportError(fm)
ReportError(errs, stack, fm) == Record(errs, ReportErrorRecord(stack, fm))

Push(stack, def) == Append(stack, def)

\* mutant: the oldest entry is removed instead of the newest
Pop_front(stack) == Tail(stack)

\* mutant: the pop is left out
Pop_none(stack) == stack

Pop(stack) == SubSeq(stack, 1, Len(stack) - 1)

\* Execute's return value
ExecuteOk(errs, initCount) == Len(errs) <= initCount

\* mutant: the entries of a flattened batch are attributed to def
AddError_owner(verr, def, err) ==
    IF err.kind = "batch"
    THEN [Errors |-> verr.Errors \o err.verr.Errors,
          Exprs  |-> verr.Exprs \o [j \in 1..Len(err.verr.Errors) |-> def]]
    ELSE [Errors |-> Append(verr.Errors, err),
          Exprs  |-> Append(verr.Exprs, def)]

\* mutant: a batch is added as one error, not flattened
AddError_nest(verr, def, err) ==
    [Errors |-> Append(verr.Errors, err), Exprs |-> Append(verr.Exprs, def)]

\* ValidationErrors.AddError
AddError(verr, def, err) ==
    IF err.kind = "batch"
    THEN [Errors |-> verr.Errors \o err.verr.Errors,
          Exprs  |-> verr.Exprs \o err.verr.Exprs]
    ELSE [Errors |-> Append(verr.Errors, err),
          Exprs  |-> Append(verr.Exprs, def)]

\* strings.Join(lines, "\n"), a string being a sequence of pieces
RECURSIVE Join(_)
Join(lines) ==
    IF lines = <<>> THEN <<>>
    ELSE IF Len(lines) = 1 THEN lines[1]
    ELSE lines[1] \o <<"\n">> \o Join(Tail(lines))

RECURSIVE ErrorText(_)
RECURSIVE RenderVerr(_)
\* err.Error() of a recorded error: its message, or the rendering of a batch
ErrorText(err) ==
    IF err.kind = "batch" THEN Join(RenderVerr(err.verr)) ELSE <<err.msg>>

\* ValidationErrors.Error: one "<name>: <message>" line per error
RenderVerr(verr) ==
    [i \in 1..Len(verr.Errors) |->
        <<EvalName(verr.Exprs[i]), ": ">> \o ErrorText(verr.Errors[i])]

\* ------------------------------------------------------ validator results
NilErr == [kind |-> "nil", msg |-> "", verr |-> EmptyVerr]

PlainErr(m) == [kind |-> "plain", msg |-> m, verr |-> EmptyVerr]

BatchErr(verr) == [kind |-> "batch", msg |-> "", verr |-> verr]

\* ValidationErrors.Add: AddError of a freshly formatted error
Add(verr, def, format) == AddError(verr, def, PlainErr(format))

\* mutant: the owners of the merged errors are not taken over
Merge_errorsOnly(verr, err) ==
    [Errors |-> verr.Errors \o err.Errors, Exprs |-> verr.Exprs]

\* ValidationErrors.Merge (err # nil)
Merge(verr, err) ==
    [Errors |-> verr.Errors \o err.Errors, Exprs |-> verr.Exprs \o err.Exprs]

\* ------------------------------------------------------- validation rules
\* a *float64 or *int field: nil, or a pointer to a number
Ptr(v) == <<v>>

\* the ValidationExpr values: every field unset or set
ValidationExprs ==
    [Values    : {<<>>, <<"a">>},
     Format    : {"", "email"},
     Pattern   : {"", "^a"},
     Minimum   : {Nil, Ptr(0)},
     Maximum   : {Nil, Ptr(9)},
     MinLength : {Nil, Ptr(1)},
     MaxLength : {Nil, Ptr(5)},
     Required  : {<<>>, <<"name">>}]

ZeroValidation ==
    [Values |-> <<>>, Format |-> "", Pattern |-> "", Minimum |-> Nil,
     Maximum |-> Nil, MinLength |-> Nil, MaxLength |-> Nil, Required |-> <<>>]

\* ValidationExpr.HasRequiredOnly
HasRequiredOnly(v) ==
    IF Len(v.Values) > 0 THEN FALSE
    ELSE IF v.Format # "" \/ v.Pattern # "" THEN FALSE
    ELSE IF v.Minimum # Nil \/ v.Maximum # Nil \/ v.MaxLength # Nil THEN FALSE
    ELSE TRUE

\* ---------------------------------------------------- what validators return
\* what Validate() of def may return: nil, one error, or a ValidationErrors
\* batch the validator filled with Add (for itself or for a child attribute)
Outcomes(def) ==
    { NilErr,
      PlainErr("invalid"),
      BatchErr(EmptyVerr),
      BatchErr(Add(EmptyVerr, def, "missing field")),
      BatchErr(Add(Add(EmptyVerr, def, "missing field"), def, "bad type")),
      BatchErr(Add(Add(EmptyVerr, AttrExpr, "missing field"), def, "bad type")) }

\* number of failures an outcome carries
Failures(out) ==
    IF out.kind = "nil" THEN 0
    ELSE IF out.kind = "plain" THEN 1 ELSE Len(out.verr.Errors)

\* the loop of validateSet over set[from..], errors being the batch so far
RECURSIVE ValidateLoop(_, _, _, _)
ValidateLoop(set, outs, from, errors) ==
    IF from > Len(set) THEN errors
    ELSE ValidateLoop(set, outs, from + 1,
            IF IsValidator(set[from]) /\ outs[from].kind # "nil"
            THEN AddError(errors, set[from], outs[from])
            ELSE errors)

\* mutant: a batch of several failures is recorded once more
ValidateSetErrors_twice(errs, set, outs) ==
    LET errors == ValidateLoop(set, outs, 1, EmptyVerr)
    IN  IF Len(errors.Errors) > 1
        THEN Record(Record(errs, ValidationRecord(errors)), ValidationRecord(errors))
        ELSE IF Len(errors.Errors) > 0
        THEN Record(errs, ValidationRecord(errors))
        ELSE errs

\* Context.Errors after validateSet(set) when the validators return outs
ValidateSetErrors(errs, set, outs) ==
    LET errors == ValidateLoop(set, outs, 1, EmptyVerr)
    IN  IF Len(errors.Errors) > 0
        THEN Record(errs, ValidationRecord(errors))
        ELSE errs

\* the Finalize calls of finalizeSet(set), in order
RECURSIVE FinalizeLoop(_, _)
FinalizeLoop(set, from) ==
    IF from > Len(set) THEN <<>>
    ELSE (IF IsFinalizer(set[from]) THEN <<set[from].id>> ELSE <<>>)
         \o FinalizeLoop(set, from + 1)

\* ------------------------------------------------------------- scheduling
\* DSLContext.SortRoots: the registered roots, each after the roots it
\* depends on, registration order kept otherwise; err on a dependency cycle
RECURSIVE SortLoop(_, _, _)
SortLoop(left, deps, done) ==
    IF left = <<>> THEN [err |-> FALSE, roots |-> done]
    ELSE LET remain == {left[i] : i \in 1..Len(left)}
            ready  == {i \in 1..Len(left) : (deps[left[i]] \cap remain) \subseteq {left[i]}}
        IN  IF ready = {} THEN [err |-> TRUE, roots |-> <<>>]
             ELSE LET i == CHOOSE j \in ready : \A k \in ready : j <= k
                  IN  SortLoop(SubSeq(left, 1, i - 1) \o SubSeq(left, i + 1, Len(left)),
                               deps, Append(done, left[i]))

SortRoots(registered, deps) == SortLoop(registered, deps, <<>>)

\* ------------------------------------------------------------------ state
VARIABLES
    pc,         \* position of the program: idle (declarations), the loops of
                \* RunDSL and runSet, done (RunDSL returned), panic
    Stack,      \* Context.Stack
    Errors,     \* Context.Errors
    roots,      \* Context.roots, in registration order
    dependsOn,  \* DependsOn() of every root
    sets,       \* the expression sets every root's IterateSets enumerates
    nextId,     \* identity of the next expression created
    sorted,     \* RunDSL: the local roots
    executedR,  \* RunDSL: executed
    recursedR,  \* RunDSL: recursed
    ri,         \* RunDSL: position of the range loops over roots
    si,         \* IterateSets: number of sets handed to the iterator so far
    set,        \* runSet: the parameter set
    executed,   \* runSet: executed
    recursed,   \* runSet: recursed
    frames,     \* the active invocations of Execute, outermost first
    ops,        \* operations the initializers have performed
    result,     \* what RunDSL returned
    ret,        \* the last return of Execute
    reported,   \* history: the record of every ReportError call
    execLog,    \* history: initializers invoked by runSet
    ranSets,    \* history: the sets runSet was called with
    appended,   \* history: expressions appended to a set being run
    registered, \* history: roots registered by initializers
    setRets,    \* history: what runSet returned
    vcalls,     \* history: the calls of validateSet
    finalized,  \* history: the Finalize calls
    target,     \* a ValidationErrors being filled, with the history of its entries
    arg,        \* a ValidationErrors filled earlier, passed to AddError and Merge
    lastCall,   \* the last method called on target
    validation, \* a ValidationExpr
    requiredOnly \* the call of validation.HasRequiredOnly and what it returned

engineVars == <<pc, Stack, Errors, roots, dependsOn, sets, nextId, sorted,
                executedR, recursedR, ri, si, set, executed, recursed, frames, ops,
                result, ret, reported, execLog, ranSets, appended, registered,
                setRets, vcalls, finalized>>

batchVars == <<target, arg, lastCall>>
validationVars == <<validation, requiredOnly>>

vars == <<engineVars, batchVars, validationVars>>

ctxVars == <<Stack, Errors, reported>>
worldVars == <<roots, dependsOn, sets, nextId, appended, registered>>
runVars == <<sorted, executedR, recursedR, ri, si>>
setVars == <<set, executed, recursed>>
histVars == <<execLog, ranSets, setRets, vcalls, finalized>>

NoResult == [kind |-> "none", errors |-> Nil]
NoRet == [def |-> NilExpr, ok |-> TRUE, depth |-> 0, before |-> 0, after |-> 0]

\* identities of the expressions that exist before the run
InitialIds == {1, 2, 3, 4}

\* the registered roots and their dependencies before the run
RootConfigs ==
    { [roots |-> <<>>,     deps |-> [r \in RootIds |-> {}]],
      [roots |-> <<1>>,    deps |-> [r \in RootIds |-> {}]],
      [roots |-> <<1, 2>>, deps |-> [r \in RootIds |-> {}]],
      [roots |-> <<1, 2>>, deps |-> [r \in RootIds |-> IF r = 1 THEN {2} ELSE {}]],
      [roots |-> <<1, 2>>, deps |-> [r \in RootIds |-> IF r = 2 THEN {1} ELSE {}]],
      [roots |-> <<1, 2>>, deps |-> [r \in RootIds |-> IF r = 1 THEN {2}
                                                       ELSE IF r = 2 THEN {1} ELSE {}]] }

\* a ValidationErrors as &ValidationErrors{} leaves it, nothing added yet
NewBatch == [verr |-> EmptyVerr, log |-> <<>>]

\* no ValidationErrors is being filled outside of validateSet
NoBatches == target = NewBatch /\ arg = NewBatch /\ lastCall = "none"

NotCalled == [called |-> FALSE, value |-> FALSE]

\* no HasRequiredOnly call is under way
NoValidation == validation = ZeroValidation /\ requiredOnly = NotCalled

\* the sets of root 1: one or two expressions of any kind, in one or two sets
Root1Sets ==
    { << <<NewExpr(1, k)>> >> : k \in Kinds }
    \cup { << <<NewExpr(1, k[1]), NewExpr(2, k[2])>> >> : k \in Kinds \X Kinds }
    \cup { << <<NewExpr(1, k[1])>>, <<NewExpr(2, k[2])>> >> : k \in Kinds \X Kinds }

Init ==
    /\ pc = "idle"
    /\ Stack = <<>>
    /\ Errors = Nil
    /\ \E c \in RootConfigs : roots = c.roots /\ dependsOn = c.deps
    /\ \E s1 \in Root1Sets :
          sets = [r \in RootIds |->
                    IF r = 1 THEN s1
                    ELSE IF r = 2 THEN << <<NewExpr(3, "nildsl")>> >>
                    ELSE << <<NewExpr(4, "fin")>> >>]
    /\ nextId = Cardinality(InitialIds) + 1
    /\ sorted = <<>> /\ executedR = 0 /\ recursedR = 0 /\ ri = 0 /\ si = 0
    /\ set = <<>> /\ executed = 0 /\ recursed = 0
    /\ frames = <<>> /\ ops = 0
    /\ result = NoResult /\ ret = NoRet
    /\ reported = <<>> /\ execLog = <<>> /\ ranSets = <<>> /\ appended = {}
    /\ registered = {} /\ setRets = <<>> /\ vcalls = <<>> /\ finalized = <<>>
    /\ NoBatches
    /\ NoValidation

\* ------------------------------------------------------------ declarations
\* a DSL function called at package initialisation reports an error
DeclReportError(fm) ==
    /\ pc = "idle"
    /\ Len(reported) < MaxDeclErrors
    /\ Errors' = ReportError(Errors, Stack, fm)
    /\ reported' = Append(reported, [rec |-> ReportErrorRecord(Stack, fm), at |-> pc])
    /\ UNCHANGED <<pc, Stack, worldVars, runVars, setVars, frames, ops, result,
                   ret, histVars>>
    /\ UNCHANGED <<batchVars, validationVars>>

\* ------------------------------------------------------------------ RunDSL
Return(kind, errs) ==
    /\ pc' = "done"
    /\ result' = [kind |-> kind, errors |-> errs]

\* mutant: the check after phase 1 left out
ErrorsAfterExecute_never(errs) == FALSE

\* if Context.Errors != nil, after phase 1
ErrorsAfterExecute(errs) == errs # Nil

\* mutant: the check after phase 2 left out
ErrorsAfterValidate_never(errs) == FALSE

\* if Context.Errors != nil, after phase 2
ErrorsAfterValidate(errs) == errs # Nil

\* mutant: the error of SortRoots is not looked at
RunDSLStart_ignoreErr ==
    /\ pc = "idle"
    /\ LET sr == SortRoots(roots, dependsOn)
       IN  IF Len(sr.roots) = 0
           THEN Return("nil", Nil) /\ UNCHANGED sorted
           ELSE pc' = "rootLoop" /\ sorted' = sr.roots /\ UNCHANGED result
    /\ executedR' = 0 /\ recursedR' = 0
    /\ UNCHANGED <<ctxVars, worldVars, ri, si, setVars, frames, ops, ret, histVars>>
    /\ UNCHANGED <<batchVars, validationVars>>

\* mutant: the roots are taken in registration order
RunDSLStart_unsorted ==
    /\ pc = "idle"
    /\ LET sr == SortRoots(roots, dependsOn)
       IN  IF sr.err
           THEN Return("cycle", Nil) /\ UNCHANGED sorted
           ELSE IF Len(sr.roots) = 0
           THEN Return("nil", Nil) /\ UNCHANGED sorted
           ELSE pc' = "rootLoop" /\ sorted' = roots /\ UNCHANGED result
    /\ executedR' = 0 /\ recursedR' = 0
    /\ UNCHANGED <<ctxVars, worldVars, ri, si, setVars, frames, ops, ret, histVars>>
    /\ UNCHANGED <<batchVars, validationVars>>

\* mutant: no return for an empty list of roots
RunDSLStart_noShortCut ==
    /\ pc = "idle"
    /\ LET sr == SortRoots(roots, dependsOn)
       IN  IF sr.err
           THEN Return("cycle", Nil) /\ UNCHANGED sorted
           ELSE pc' = "rootLoop" /\ sorted' = sr.roots /\ UNCHANGED result
    /\ executedR' = 0 /\ recursedR' = 0
    /\ UNCHANGED <<ctxVars, worldVars, ri, si, setVars, frames, ops, ret, histVars>>
    /\ UNCHANGED <<batchVars, validationVars>>

\* RunDSL up to the first evaluation of the outer loop condition
RunDSLStart ==
    /\ pc = "idle"
    /\ LET sr == SortRoots(roots, dependsOn)
       IN  IF sr.err
           THEN Return("cycle", Nil) /\ UNCHANGED sorted
           ELSE IF Len(sr.roots) = 0
           THEN Return("nil", Nil) /\ UNCHANGED sorted
           ELSE pc' = "rootLoop" /\ sorted' = sr.roots /\ UNCHANGED result
    /\ executedR' = 0 /\ recursedR' = 0
    /\ UNCHANGED <<ctxVars, worldVars, ri, si, setVars, frames, ops, ret, histVars>>
    /\ UNCHANGED <<batchVars, validationVars>>

\* for executed < len(roots): enter the range over roots[start:], or leave
\* phase 1 through the check of Context.Errors
RootLoop ==
    /\ pc = "rootLoop"
    /\ IF executedR < Len(sorted)
       THEN /\ recursedR' = recursedR + 1
            /\ ri' = executedR + 1
            /\ executedR' = Len(sorted)
            /\ si' = 0
            /\ pc' = "rootRange"
            /\ UNCHANGED result
       ELSE /\ IF ErrorsAfterExecute(Errors)
               THEN Return("errors", Errors) /\ UNCHANGED <<ri, si>>
               ELSE pc' = "validate" /\ ri' = 1 /\ si' = 0 /\ UNCHANGED result
            /\ UNCHANGED <<recursedR, executedR>>
    /\ UNCHANGED <<ctxVars, worldVars, sorted, setVars, frames, ops, ret, histVars>>
    /\ UNCHANGED <<batchVars, validationVars>>

\* root.IterateSets(runSet) for the roots of roots[start:]: hand the next set
\* of the root to runSet, or go to the next root, or finish the range
ExecIterate ==
    /\ pc = "rootRange"
    /\ IF ri > executedR
       THEN /\ IF recursedR > MaxRecursed
               THEN Return("too many generated roots", Nil)
               ELSE pc' = "rootLoop" /\ UNCHANGED result
            /\ UNCHANGED <<ri, si, setVars, ranSets>>
       ELSE IF si < Len(sets[sorted[ri]])
       THEN /\ si' = si + 1
            /\ set' = sets[sorted[ri]][si + 1]
            /\ executed' = 0
            /\ recursed' = 0
            /\ ranSets' = Append(ranSets, <<sorted[ri], si + 1>>)
            /\ pc' = "runSet"
            /\ UNCHANGED <<ri, result>>
       ELSE /\ ri' = ri + 1
            /\ si' = 0
            /\ UNCHANGED <<pc, result, setVars, ranSets>>
    /\ UNCHANGED <<ctxVars, worldVars, sorted, executedR, recursedR, frames, ops,
                   ret, execLog, setRets, vcalls, finalized>>
    /\ UNCHANGED <<batchVars, validationVars>>

\* runSet: for executed < len(set)
RunSetLoop ==
    /\ pc = "runSet"
    /\ IF executed < Len(set)
       THEN /\ recursed' = recursed + 1
            /\ pc' = "runRange"
            /\ UNCHANGED setRets
       ELSE /\ setRets' = Append(setRets, "nil")
            /\ pc' = "rootRange"
            /\ UNCHANGED recursed
    /\ UNCHANGED <<ctxVars, worldVars, runVars, set, executed, frames, ops, result,
                   ret, execLog, ranSets, vcalls, finalized>>
    /\ UNCHANGED <<batchVars, validationVars>>

\* an invocation of Execute: its def, initCount, and the Stack it was called with
NewFrame(def, errs) == [def |-> def, initCount |-> Len(errs), stack |-> Stack]

\* runSet: one iteration of the range over set[executed:], with the start of
\* Execute(source.DSL(), def); or the check of recursed once the range ends
RunSetStep ==
    /\ pc = "runRange"
    /\ frames = <<>>
    /\ IF executed < Len(set)
       THEN LET def == set[executed + 1]
            IN  /\ executed' = executed + 1
                /\ IF IsSource(def) /\ HasDSL(def)
                   THEN IF Errors = Nil
                        THEN /\ pc' = "panic"
                             /\ UNCHANGED <<Stack, frames, execLog>>
                        ELSE /\ Stack' = Push(Stack, def)
                             /\ frames' = <<NewFrame(def, Errors)>>
                             /\ execLog' = Append(execLog,
                                    [id |-> def.id, root |-> sorted[ri], set |-> si])
                             /\ UNCHANGED pc
                   ELSE UNCHANGED <<pc, Stack, frames, execLog>>
                /\ UNCHANGED setRets
       ELSE /\ IF recursed > MaxRecursed
               THEN /\ setRets' = Append(setRets, "too many generated expressions")
                    /\ pc' = "rootRange"
               ELSE pc' = "runSet" /\ UNCHANGED setRets
            /\ UNCHANGED <<executed, Stack, frames, execLog>>
    /\ UNCHANGED <<Errors, reported, worldVars, runVars, set, recursed, ops, result,
                   ret, ranSets, vcalls, finalized>>
    /\ UNCHANGED <<batchVars, validationVars>>

\* ------------------------------------------- what a deferred initializer does
Running == frames # <<>> /\ ops < MaxOps

\* ReportError(fm)
DSLReportError(fm) ==
    /\ Running
    /\ Errors' = ReportError(Errors, Stack, fm)
    /\ reported' = Append(reported, [rec |-> ReportErrorRecord(Stack, fm), at |-> pc])
    /\ ops' = ops + 1
    /\ UNCHANGED <<pc, Stack, worldVars, runVars, setVars, frames, result, ret,
                   histVars>>
    /\ UNCHANGED <<batchVars, validationVars>>

\* the initializer appends a new expression to the set it is being run from
DSLAppend(k) ==
    /\ Running
    /\ nextId <= Cardinality(InitialIds) + MaxNewExprs
    /\ LET r == sorted[ri]
           e == NewExpr(nextId, k)
       IN  /\ sets' = [sets EXCEPT ![r][si] = Append(@, e)]
           /\ appended' = appended \cup
                  {[root |-> r, set |-> si, expr |-> e, by |-> frames[1].def.id]}
    /\ nextId' = nextId + 1
    /\ ops' = ops + 1
    /\ UNCHANGED <<pc, ctxVars, roots, dependsOn, registered, runVars, setVars,
                   frames, result, ret, histVars>>
    /\ UNCHANGED <<batchVars, validationVars>>

\* Register(r): the initializer registers a further root
DSLRegister(r) ==
    /\ Running
    /\ \A i \in 1..Len(roots) : roots[i] # r
    /\ roots' = Append(roots, r)
    /\ registered' = registered \cup {[root |-> r, during |-> sorted[ri]]}
    /\ ops' = ops + 1
    /\ UNCHANGED <<pc, ctxVars, dependsOn, sets, nextId, appended, runVars, setVars,
                   frames, result, ret, histVars>>
    /\ UNCHANGED <<batchVars, validationVars>>

\* Execute(dsl, at) called by a DSL function of the initializer (as View does),
\* up to the call of dsl
DSLExecute(dslNil) ==
    /\ Running
    /\ Len(frames) < MaxDepth
    /\ ops' = ops + 1
    /\ IF dslNil
       THEN /\ ret' = [def |-> AttrExpr, ok |-> TRUE, depth |-> Len(frames) + 1,
                       before |-> Len(Errors), after |-> Len(Errors)]
            /\ UNCHANGED <<pc, Stack, frames>>
       ELSE IF Errors = Nil
       THEN pc' = "panic" /\ UNCHANGED <<Stack, frames, ret>>
       ELSE /\ Stack' = Push(Stack, AttrExpr)
            /\ frames' = Append(frames, NewFrame(AttrExpr, Errors))
            /\ UNCHANGED <<pc, ret>>
    /\ UNCHANGED <<Errors, reported, worldVars, runVars, setVars, result, histVars>>
    /\ UNCHANGED <<batchVars, validationVars>>

\* dsl() returns: the rest of Execute
DSLReturn ==
    /\ frames # <<>>
    /\ LET f == frames[Len(frames)]
       IN  ret' = [def |-> f.def, ok |-> ExecuteOk(Errors, f.initCount),
                   depth |-> Len(frames), before |-> f.initCount,
                   after |-> Len(Errors)]
    /\ Stack' = Pop(Stack)
    /\ frames' = SubSeq(frames, 1, Len(frames) - 1)
    /\ UNCHANGED <<pc, Errors, reported, worldVars, runVars, setVars, ops, result,
                   histVars>>
    /\ UNCHANGED <<batchVars, validationVars>>

\* ------------------------------------------------------------ phases 2 and 3
AllOutcomes(s) == UNION {Outcomes(s[i]) : i \in 1..Len(s)}

\* the results the validators of a set may return, one per element
OutcomeSeqs(s) ==
    {outs \in [1..Len(s) -> AllOutcomes(s) \cup {NilErr}] :
        \A i \in 1..Len(s) :
            outs[i] \in (IF IsValidator(s[i]) THEN Outcomes(s[i]) ELSE {NilErr})}

\* mutant: phase 2 ends after the first root
ValidateIterate_firstRoot ==
    /\ pc = "validate"
    /\ IF ri > 1
       THEN /\ IF ErrorsAfterValidate(Errors)
               THEN Return("errors", Errors) /\ UNCHANGED <<ri, si>>
               ELSE pc' = "finalize" /\ ri' = 1 /\ si' = 0 /\ UNCHANGED result
            /\ UNCHANGED <<Errors, vcalls>>
       ELSE IF si < Len(sets[sorted[ri]])
       THEN LET s == sets[sorted[ri]][si + 1]
            IN  \E outs \in OutcomeSeqs(s) :
                   /\ Errors' = ValidateSetErrors(Errors, s, outs)
                   /\ vcalls' = Append(vcalls,
                          [root |-> sorted[ri], idx |-> si + 1, set |-> s,
                           outs |-> outs,
                           rec |-> IF ValidateSetErrors(Errors, s, outs) = Errors
                                   THEN 0 ELSE Len(Errors) + 1])
                   /\ si' = si + 1
                   /\ UNCHANGED <<pc, ri, result>>
       ELSE /\ ri' = ri + 1
            /\ si' = 0
            /\ UNCHANGED <<pc, result, Errors, vcalls>>
    /\ UNCHANGED <<Stack, reported, worldVars, sorted, executedR, recursedR,
                   setVars, frames, ops, ret, execLog, ranSets, setRets, finalized>>
    /\ UNCHANGED <<batchVars, validationVars>>

\* root.IterateSets(validateSet) for every root, then the check of
\* Context.Errors
ValidateIterate ==
    /\ pc = "validate"
    /\ IF ri > Len(sorted)
       THEN /\ IF ErrorsAfterValidate(Errors)
               THEN Return("errors", Errors) /\ UNCHANGED <<ri, si>>
               ELSE pc' = "finalize" /\ ri' = 1 /\ si' = 0 /\ UNCHANGED result
            /\ UNCHANGED <<Errors, vcalls>>
       ELSE IF si < Len(sets[sorted[ri]])
       THEN LET s == sets[sorted[ri]][si + 1]
            IN  \E outs \in OutcomeSeqs(s) :
                   /\ Errors' = ValidateSetErrors(Errors, s, outs)
                   /\ vcalls' = Append(vcalls,
                          [root |-> sorted[ri], idx |-> si + 1, set |-> s,
                           outs |-> outs,
                           rec |-> IF ValidateSetErrors(Errors, s, outs) = Errors
                                   THEN 0 ELSE Len(Errors) + 1])
                   /\ si' = si + 1
                   /\ UNCHANGED <<pc, ri, result>>
       ELSE /\ ri' = ri + 1
            /\ si' = 0
            /\ UNCHANGED <<pc, result, Errors, vcalls>>
    /\ UNCHANGED <<Stack, reported, worldVars, sorted, executedR, recursedR,
                   setVars, frames, ops, ret, execLog, ranSets, setRets, finalized>>
    /\ UNCHANGED <<batchVars, validationVars>>

\* root.IterateSets(finalizeSet) for every root, then return nil
FinalizeIterate ==
    /\ pc = "finalize"
    /\ IF ri > Len(sorted)
       THEN Return("nil", Nil) /\ UNCHANGED <<ri, si, finalized>>
       ELSE IF si < Len(sets[sorted[ri]])
       THEN /\ finalized' = finalized \o FinalizeLoop(sets[sorted[ri]][si + 1], 1)
            /\ si' = si + 1
            /\ UNCHANGED <<pc, ri, result>>
       ELSE /\ ri' = ri + 1
            /\ si' = 0
            /\ UNCHANGED <<pc, result, finalized>>
    /\ UNCHANGED <<ctxVars, worldVars, sorted, executedR, recursedR, setVars,
                   frames, ops, ret, execLog, ranSets, setRets, vcalls>>
    /\ UNCHANGED <<batchVars, validationVars>>

Next ==
    \/ \E fm \in {"defined twice"} : DeclReportError(fm)
    \/ RunDSLStart
    \/ RootLoop
    \/ ExecIterate
    \/ RunSetLoop
    \/ RunSetStep
    \/ \E fm \in Formats : DSLReportError(fm)
    \/ \E k \in Kinds : DSLAppend(k)
    \/ \E r \in RootIds : DSLRegister(r)
    \/ \E b \in BOOLEAN : DSLExecute(b)
    \/ DSLReturn
    \/ ValidateIterate
    \/ FinalizeIterate

Spec == Init /\ [][Next]_vars

\* =========================================== ValidationErrors on its own
\* the engine at rest, before RunDSL and with nothing declared
EngineIdle ==
    /\ pc = "idle" /\ Stack = <<>> /\ Errors = Nil
    /\ roots = <<>> /\ dependsOn = [r \in RootIds |-> {}]
    /\ sets = [r \in RootIds |-> <<>>]
    /\ nextId = Cardinality(InitialIds) + 1
    /\ sorted = <<>> /\ executedR = 0 /\ recursedR = 0 /\ ri = 0 /\ si = 0
    /\ set = <<>> /\ executed = 0 /\ recursed = 0
    /\ frames = <<>> /\ ops = 0
    /\ result = NoResult /\ ret = NoRet
    /\ reported = <<>> /\ execLog = <<>> /\ ranSets = <<>> /\ appended = {}
    /\ registered = {} /\ setRets = <<>> /\ vcalls = <<>> /\ finalized = <<>>

\* the expressions errors are added for
Owners == {NewExpr(1, "full"), AttrExpr}

\* an entry of the history of a batch: the error and the expression it was
\* added for
Entry(err, def) == [err |-> err, expr |-> def]

BatchInit == EngineIdle /\ NoBatches /\ NoValidation

\* target.Add(def, "missing field")
BatchAdd(def) ==
    /\ Len(target.log) < MaxErrors
    /\ target' = [verr |-> Add(target.verr, def, "missing field"),
                  log  |-> Append(target.log, Entry(PlainErr("missing field"), def))]
    /\ lastCall' = "Add"
    /\ UNCHANGED <<arg, engineVars, validationVars>>

\* target.AddError(def, err) with an error that is not a batch
BatchAddError(def) ==
    /\ Len(target.log) < MaxErrors
    /\ target' = [verr |-> AddError(target.verr, def, PlainErr("invalid")),
                  log  |-> Append(target.log, Entry(PlainErr("invalid"), def))]
    /\ lastCall' = "AddError"
    /\ UNCHANGED <<arg, engineVars, validationVars>>

\* target.AddError(def, arg), arg being a batch
BatchAddBatch(def) ==
    /\ Len(target.log) + Len(arg.log) <= MaxErrors
    /\ target' = [verr |-> AddError(target.verr, def, BatchErr(arg.verr)),
                  log  |-> target.log \o arg.log]
    /\ lastCall' = "AddError batch"
    /\ UNCHANGED <<arg, engineVars, validationVars>>

\* target.Merge(arg)
BatchMerge ==
    /\ Len(target.log) + Len(arg.log) <= MaxErrors
    /\ target' = [verr |-> Merge(target.verr, arg.verr),
                  log  |-> target.log \o arg.log]
    /\ lastCall' = "Merge"
    /\ UNCHANGED <<arg, engineVars, validationVars>>

\* the batch filled so far is kept as an argument and a new one is started
BatchKeep ==
    /\ lastCall # "none"
    /\ arg' = target
    /\ target' = NewBatch
    /\ lastCall' = "none"
    /\ UNCHANGED <<engineVars, validationVars>>

BatchNext ==
    \/ \E def \in Owners : BatchAdd(def)
    \/ BatchAddError(NewExpr(1, "full"))
    \/ \E def \in Owners : BatchAddBatch(def)
    \/ BatchMerge
    \/ BatchKeep

BatchSpec == BatchInit /\ [][BatchNext]_vars

\* ============================================= ValidationExpr on its own
ValidationInit ==
    /\ EngineIdle /\ NoBatches
    /\ validation \in ValidationExprs
    /\ requiredOnly = NotCalled

\* validation.HasRequiredOnly()
CallHasRequiredOnly ==
    /\ ~requiredOnly.called
    /\ requiredOnly' = [called |-> TRUE, value |-> HasRequiredOnly(validation)]
    /\ UNCHANGED <<validation, engineVars, batchVars>>

ValidationNext == CallHasRequiredOnly

ValidationSpec == ValidationInit /\ [][ValidationNext]_vars

\* ================================================================ properties
\* Current()
Current == CurrentOf(Stack)

\* the records of the ReportError calls, in call order
ReportedRecords == [i \in 1..Len(reported) |-> reported[i].rec]

\* an initializer reported an error during phase 1
ReportedInPhase1 == \E i \in 1..Len(reported) : reported[i].at = "runRange"

\* a validator returned at least one failure
SomeFailure ==
    \E c \in 1..Len(vcalls) : \E i \in 1..Len(vcalls[c].set) :
        IsValidator(vcalls[c].set[i]) /\ Failures(vcalls[c].outs[i]) > 0

\* every validator called so far returned nil
AllValid ==
    \A c \in 1..Len(vcalls) : \A i \in 1..Len(vcalls[c].set) :
        vcalls[c].outs[i] = NilErr

\* number of Finalize calls on the expression id
FinalizeCount(id) == Cardinality({i \in 1..Len(finalized) : finalized[i] = id})

\* every Finalizer of every set of root r was finalized exactly once
FinalizedOnce(r) ==
    \A j \in 1..Len(sets[r]) : \A i \in 1..Len(sets[r][j]) :
        IsFinalizer(sets[r][j][i]) => FinalizeCount(sets[r][j][i].id) = 1

\* validateSet was called exactly once with every set of every root of the run
AllSetsValidated ==
    \A k \in 1..Len(sorted) : \A j \in 1..Len(sets[sorted[k]]) :
        Cardinality({c \in 1..Len(vcalls) :
            vcalls[c].root = sorted[k] /\ vcalls[c].idx = j}) = 1

\* C1: once an initializer has reported an error in phase 1, no Validate and
\* no Finalize is ever invoked in the run, the run does not crash, and when
\* RunDSL returns it returns the (non-nil) Errors collection.
C1_Phase1ErrorSkipsLaterPhases ==
    ReportedInPhase1 =>
        /\ vcalls = <<>>
        /\ finalized = <<>>
        /\ pc \notin {"validate", "finalize", "panic"}
        /\ pc = "done" => result = [kind |-> "errors", errors |-> Errors] /\ Errors # Nil

C1_Witness ==
    /\ pc = "done"
    /\ ReportedInPhase1
    /\ result.kind = "errors"
    /\ Len(sorted) = 2

\* C2: once a validator has returned a failure, no Finalize is invoked, and
\* RunDSL returns only after validateSet has been called with every set of
\* every root, and then returns the non-empty Errors collection.
C2_ValidationFailureSkipsFinalize ==
    SomeFailure =>
        /\ finalized = <<>>
        /\ pc \notin {"finalize", "panic"}
        /\ pc = "done" =>
              /\ result = [kind |-> "errors", errors |-> Errors]
              /\ Errors # Nil
              /\ AllSetsValidated

C2_Witness ==
    /\ pc = "done"
    /\ SomeFailure
    /\ Len(vcalls) >= 2
    /\ Failures(vcalls[1].outs[1]) > 0
    /\ result.kind = "errors"

\* C3 (the claim as stated): a run with at least one root in which no error
\* is reported and every validator succeeds returns nil with every Finalizer
\* of every set of every root finalized exactly once, whether or not the
\* sets hold expressions with deferred initializers.
C3_CleanRunSucceeds ==
    (pc \in {"done", "panic"} /\ sorted # <<>> /\ reported = <<>> /\ AllValid) =>
        /\ result.kind = "nil"
        /\ \A k \in 1..Len(sorted) : FinalizedOnce(sorted[k])

\* runSet is running set number j of root r
InRunOf(r, j) ==
    pc \in {"runSet", "runRange"} /\ sorted[ri] = r /\ si = j

\* runSet invoked the initializer of the expression id
WasExecuted(id) == \E i \in 1..Len(execLog) : execLog[i].id = id

\* C4 (the claim as stated): once runSet has returned for a set, every
\* expression with a deferred initializer that an initializer appended to that
\* set while it was being run has had its own initializer executed.
C4_AppendedExpressionsExecuted ==
    \A a \in appended :
        (HasDSL(a.expr) /\ pc # "panic" /\ ~InRunOf(a.root, a.set))
            => WasExecuted(a.expr.id)

\* every initializer runSet invoked for set j of root r appended an
\* expression with an initializer to that set
SelfAppending(r, j) ==
    /\ \E i \in 1..Len(execLog) : execLog[i].root = r /\ execLog[i].set = j
    /\ \A i \in 1..Len(execLog) :
          (execLog[i].root = r /\ execLog[i].set = j) =>
              \E a \in appended :
                  /\ a.root = r /\ a.set = j /\ a.by = execLog[i].id
                  /\ HasDSL(a.expr)

\* C5 (the claim as stated): a run in which the initializers of some set
\* append a further copy of themselves every time they run ends with the
\* fatal error "too many generated expressions".
C5_SelfAppendingIsFatal ==
    (pc = "done" /\ \E r \in RootIds : \E j \in 1..Len(sets[r]) : SelfAppending(r, j))
        => result.kind = "too many generated expressions"

\* runSet was called with every set of root r
RootWasRun(r) ==
    \A j \in 1..Len(sets[r]) : \E i \in 1..Len(ranSets) : ranSets[i] = <<r, j>>

\* C6 (the claim as stated): when phase 1 is over, the sets of every root an
\* initializer registered during phase 1 have been executed, and when the run
\* returns nil every Finalizer of such a root was finalized exactly once.
C6_RegisteredRootProcessed ==
    \A g \in registered :
        /\ pc \in {"validate", "finalize", "done"} => RootWasRun(g.root)
        /\ (pc = "done" /\ result.kind = "nil") => FinalizedOnce(g.root)

\* C7 (the claim as stated): when every root the run evaluated registered a
\* further root, RunDSL returns "too many generated roots".
C7_RootGrowthIsFatal ==
    (/\ pc = "done"
     /\ ranSets # <<>>
     /\ \A i \in 1..Len(ranSets) : \E g \in registered : g.during = ranSets[i][1])
        => result.kind = "too many generated roots"

\* C8: when RunDSL returns after phase 1 with errors, the collection it
\* returns holds exactly the records of the ReportError calls made in the
\* lifecycle of the context (declarations, then the run), one per call and
\* in call order.
C8_ReturnedErrorsAreTheReported ==
    (pc = "done" /\ result.kind = "errors" /\ vcalls = <<>>)
        => result.errors = ReportedRecords

C8_Witness ==
    /\ pc = "done"
    /\ result.kind = "errors"
    /\ vcalls = <<>>
    /\ Len(reported) >= 3
    /\ reported[2].at = "runRange"
    /\ reported[2].rec # reported[3].rec

\* the lines lines[k+1..k+n] are the failures of the batch b, in order, each
\* under the name Owner(j) gives for failure j
BatchAt(lines, k, b, Owner(_)) ==
    /\ k + Len(b.Errors) <= Len(lines)
    /\ \A j \in 1..Len(b.Errors) :
          lines[k + j] = <<EvalName(Owner(j)), ": ">> \o ErrorText(b.Errors[j])

\* the validation record validateSet call c added shows batch b under Owner
BatchReturned(c, b, Owner(_)) ==
    /\ vcalls[c].rec > 0
    /\ vcalls[c].rec <= Len(result.errors)
    /\ LET lines == RenderVerr(result.errors[vcalls[c].rec].verr)
       IN  \E k \in 0..Len(lines) : BatchAt(lines, k, b, Owner)

\* C9 (the claim as stated): every failure of a batch a validator returned is
\* in the aggregate RunDSL returns, in order, under the name of the
\* expression whose Validate returned the batch.
C9_BatchAttributedToValidator ==
    pc = "done" =>
        \A c \in 1..Len(vcalls) : \A i \in 1..Len(vcalls[c].set) :
            LET out == vcalls[c].outs[i]
                Self(j) == vcalls[c].set[i]
            IN  (out.kind = "batch" /\ Failures(out) > 0)
                    => BatchReturned(c, out.verr, Self)

\* C9 (amended): every failure of a batch a validator returned is in the
\* aggregate RunDSL returns, in order, under the name of the expression the
\* batch records for that failure.
C9_BatchAttributedToRecordedOwner ==
    pc = "done" =>
        \A c \in 1..Len(vcalls) : \A i \in 1..Len(vcalls[c].set) :
            LET out == vcalls[c].outs[i]
                Owner(j) == out.verr.Exprs[j]
            IN  (out.kind = "batch" /\ Failures(out) > 0)
                    => BatchReturned(c, out.verr, Owner)

C9_Witness ==
    /\ pc = "done"
    /\ \E c \in 1..Len(vcalls) : \E i \in 1..Len(vcalls[c].set) :
          /\ i > 1
          /\ Failures(vcalls[c].outs[1]) > 0
          /\ vcalls[c].outs[i].kind = "batch"
          /\ Failures(vcalls[c].outs[i]) > 1
          /\ vcalls[c].outs[i].verr.Exprs[1] # vcalls[c].set[i]
          /\ result.kind = "errors"

\* C10: Current() is Top exactly when no invocation of Execute is active, and
\* otherwise the expression of the innermost active invocation, which is the
\* last one pushed and not yet popped; so it is the enclosing expression
\* again once a nested Execute has returned, errors reported or not.
C10_CurrentIsInnermost ==
    /\ Stack = <<>> => Current = Top
    /\ frames = <<>> => Current = Top
    /\ frames # <<>> => Current = frames[Len(frames)].def

C10_Witness ==
    /\ Len(frames) = 1
    /\ ret.depth = 2
    /\ ~ret.ok
    /\ ret.def # frames[1].def
    /\ Current = frames[1].def

\* the positions of RunDSL outside every invocation of Execute
AtBoundary ==
    \/ pc \in {"idle", "rootLoop", "rootRange", "runSet", "validate", "finalize", "done"}
    \/ pc = "runRange" /\ frames = <<>>

\* C11: whenever an invocation of Execute returns, the Stack is again what it
\* was when that invocation was called (errors reported or not, nested
\* invocations or not), and the Stack is empty at every position of RunDSL
\* outside Execute: at the start of each phase and when RunDSL returns.
C11_StackRestored ==
    /\ [](AtBoundary => Stack = <<>>)
    /\ [][Len(frames') < Len(frames) => Stack' = frames[Len(frames)].stack]_vars
    /\ [][(ret' # ret /\ Len(frames') = Len(frames)) => Stack' = Stack]_vars

C11_Witness ==
    /\ pc = "done"
    /\ Stack = <<>>
    /\ ret.depth = 1
    /\ ~ret.ok
    /\ Len(execLog) >= 2

\* the last invocation of Execute that returned reported whether errors were
\* recorded during it
LastExecuteExact == ret.depth > 0 => (ret.ok <=> ret.after = ret.before)

\* C12 (the claim as stated): every call of Execute with a non-nil dsl returns,
\* whatever Context.Errors held before it (nothing recorded yet included),
\* and returns true exactly when the number of recorded errors is the same
\* after the call as before it.
C12_ExecuteReportsNewErrors ==
    /\ pc # "panic"
    /\ LastExecuteExact

\* the registered roots
Registered == {roots[i] : i \in 1..Len(roots)}

\* root b is reached from root a in at most n steps of DependsOn
RECURSIVE DependsPath(_, _, _)
DependsPath(a, b, n) ==
    /\ n > 0
    /\ \/ b \in dependsOn[a]
       \/ \E c \in dependsOn[a] \cap Registered : DependsPath(c, b, n - 1)

\* two different registered roots depend on each other, directly or not
CycleAmongRoots ==
    \E a \in Registered : \E b \in Registered \ {a} :
        DependsPath(a, b, Len(roots)) /\ DependsPath(b, a, Len(roots))

\* nothing of any expression was invoked
NothingInvoked ==
    ranSets = <<>> /\ execLog = <<>> /\ vcalls = <<>> /\ finalized = <<>>

\* C13: when the registered roots depend on each other in a cycle of two or
\* more roots, RunDSL returns the scheduling error and invokes no deferred
\* initializer, validator or finalizer.
C13_CycleAbortsBeforeEvaluation ==
    (pc # "idle" /\ CycleAmongRoots) =>
        /\ pc = "done"
        /\ result.kind = "cycle"
        /\ NothingInvoked

C13_Witness ==
    /\ CycleAmongRoots
    /\ pc = "done"
    /\ result.kind = "cycle"
    /\ Errors # Nil

\* the roots registered before RunDSL was called
InitialRoots == Registered \ {g.root : g \in registered}

\* the roots r has to come after
Dependencies(r) == (dependsOn[r] \cap InitialRoots) \ {r}

\* every set of root d is among the first n entries of the calls log
\* (a sequence of <<root, set number>>)
RootDoneWithin(calls, d, n) ==
    \A k \in 1..Len(sets[d]) : \E j \in 1..n : calls[j] = <<d, k>>

\* the calls of validateSet as <<root, set number>>
ValidatedSets == [c \in 1..Len(vcalls) |-> <<vcalls[c].root, vcalls[c].idx>>]

\* C14: when the registered roots have no dependency cycle, RunDSL processes
\* every root after all the roots its DependsOn returns: in the order of its
\* local roots, in the calls of runSet and in the calls of validateSet.
C14_DependenciesProcessedFirst ==
    (pc # "idle" /\ ~CycleAmongRoots) =>
        /\ \A i \in 1..Len(sorted) : \A d \in Dependencies(sorted[i]) :
              \E j \in 1..(i - 1) : sorted[j] = d
        /\ \A i \in 1..Len(ranSets) : \A d \in Dependencies(ranSets[i][1]) :
              RootDoneWithin(ranSets, d, i - 1)
        /\ \A i \in 1..Len(vcalls) : \A d \in Dependencies(vcalls[i].root) :
              RootDoneWithin(ValidatedSets, d, i - 1)

C14_Witness ==
    /\ pc = "done"
    /\ roots = <<1, 2>>
    /\ dependsOn[1] = {2}
    /\ Len(vcalls) = 2
    /\ vcalls[1].root = 2
    /\ ranSets[1][1] = 2

\* scenario B: nothing reported before the run, one root with one set of one
\* named expression whose initializer, when it runs, reports "bad value" once
ScenarioB ==
    /\ sorted = <<1>>
    /\ Len(sets[1]) = 1
    /\ Len(sets[1][1]) = 1
    /\ HasDSL(sets[1][1][1])
    /\ EvalName(sets[1][1][1]) # ""
    /\ \A i \in 1..Len(reported) : reported[i].at # "idle"
    /\ execLog # <<>> =>
          /\ Len(reported) = 1
          /\ reported[1].rec.msg[1] = "bad value"

\* C15 (the claim as stated): the run of scenario B returns an aggregate of
\* exactly one error entry, "<name>: bad value" with the name of the
\* expression.
C15_ScenarioBReturnsOneNamedError ==
    (ScenarioB /\ pc \in {"done", "panic"}) =>
        /\ result.kind = "errors"
        /\ Len(result.errors) = 1
        /\ result.errors[1].msg = <<EvalName(sets[1][1][1]), ": ", "bad value">>

\* C16: when no root is registered, RunDSL returns nil at once and invokes no
\* deferred initializer, validator or finalizer.
C16_NoRootsReturnsNil ==
    (pc # "idle" /\ roots = <<>>) =>
        /\ pc = "done"
        /\ result = [kind |-> "nil", errors |-> Nil]
        /\ NothingInvoked

C16_Witness ==
    /\ roots = <<>>
    /\ pc = "done"
    /\ result.kind = "nil"
    /\ NothingInvoked

\* runSet was called with every set of every root of the run and has returned
AllSetsRun ==
    /\ \A k \in 1..Len(sorted) : \A j \in 1..Len(sets[sorted[k]]) :
          \E c \in 1..Len(ranSets) : ranSets[c] = <<sorted[k], j>>
    /\ Len(setRets) = Len(ranSets)
    /\ frames = <<>>

\* C17: the three phases are strictly sequential over the whole run: a deferred
\* initializer is only invoked while no Validate and no Finalize has been
\* invoked, Validate is only invoked once runSet has returned for every set of
\* every root and while no Finalize has been invoked, and Finalize is only
\* invoked once every set of every root has been validated.
C17_PhasesSequential ==
    /\ [][(execLog' # execLog \/ ranSets' # ranSets \/ frames' # <<>>)
             => (vcalls' = <<>> /\ finalized' = <<>>)]_vars
    /\ [][vcalls' # vcalls => (AllSetsRun /\ finalized' = <<>>)]_vars
    /\ [][finalized' # finalized => (AllSetsRun /\ AllSetsValidated /\ vcalls' = vcalls)]_vars

C17_Witness ==
    /\ pc = "done"
    /\ Len(sorted) = 2
    /\ Len(ranSets) = 3
    /\ Len(vcalls) = 3
    /\ finalized = <<1, 2>>

\* every expression with a deferred initializer in every set of every root of
\* the run was executed
AllInitializersExecuted ==
    \A k \in 1..Len(sorted) : \A j \in 1..Len(sets[sorted[k]]) :
        \A i \in 1..Len(sets[sorted[k]][j]) :
            HasDSL(sets[sorted[k]][j][i]) => WasExecuted(sets[sorted[k]][j][i].id)

\* C18: a phase is not cut short by per-expression errors: when an initializer
\* reported an error in phase 1, every expression with a deferred initializer
\* in every set of every root has been executed once RunDSL returns, and once
\* phase 2 is over every set of every root has been validated, whatever the
\* validators returned.
C18_PhasesRunToCompletion ==
    /\ (pc = "done" /\ ReportedInPhase1) => AllInitializersExecuted
    /\ (pc \in {"finalize", "done"} /\ vcalls # <<>>) => AllSetsValidated

\* number of invocations of the initializer of the expression id
ExecCount(id) == Cardinality({i \in 1..Len(execLog) : execLog[i].id = id})

\* the index of the expression id in the set s
IndexIn(s, id) == CHOOSE i \in 1..Len(s) : s[i].id = id

\* the invocations of initializers of one set happened in index order, none
\* of them twice
ExecutedInOrder ==
    \A i \in 1..Len(execLog) : \A j \in (i + 1)..Len(execLog) :
        (execLog[i].root = execLog[j].root /\ execLog[i].set = execLog[j].set) =>
            LET s == sets[execLog[i].root][execLog[i].set]
            IN  IndexIn(s, execLog[i].id) < IndexIn(s, execLog[j].id)

\* C19: within one set, phase 1 invokes the deferred initializers in index
\* order, and once RunDSL has returned from a run over the roots the
\* initializer of each element of each set has been invoked exactly once.
C19_InOrderExactlyOnce ==
    /\ ExecutedInOrder
    /\ (pc = "done" /\ ranSets # <<>>) =>
          \A k \in 1..Len(sorted) : \A j \in 1..Len(sets[sorted[k]]) :
              \A i \in 1..Len(sets[sorted[k]][j]) :
                  HasDSL(sets[sorted[k]][j][i]) =>
                      ExecCount(sets[sorted[k]][j][i].id) = 1

\* number of failures the validators of the set returned, from element i on
RECURSIVE SetFailures(_, _, _)
SetFailures(s, outs, i) ==
    IF i > Len(s) THEN 0
    ELSE (IF IsValidator(s[i]) THEN Failures(outs[i]) ELSE 0)
         + SetFailures(s, outs, i + 1)

\* the calls of validateSet in which at least one validator returned a failure
FailingCalls == {c \in 1..Len(vcalls) : SetFailures(vcalls[c].set, vcalls[c].outs, 1) > 0}

\* C20: validateSet adds exactly one record to Context.Errors for a set in
\* which the validators returned at least one failure (a plain error or an
\* entry of a returned batch), however many, and none for a set in which they
\* returned none; so the number of records added in phase 2 is the number of
\* such sets.
C20_OneRecordPerFailingSet ==
    (pc \in {"validate", "finalize", "done"} /\ result.kind \in {"none", "nil", "errors"}
        /\ vcalls # <<>>) =>
        /\ \A c \in 1..Len(vcalls) : vcalls[c].rec > 0 <=> c \in FailingCalls
        /\ \A c \in FailingCalls : \A d \in FailingCalls :
              c # d => vcalls[c].rec # vcalls[d].rec
        /\ \A c \in FailingCalls :
              /\ vcalls[c].rec <= Len(Errors)
              /\ Errors[vcalls[c].rec].kind = "validation"
              /\ Len(Errors[vcalls[c].rec].verr.Errors)
                    = SetFailures(vcalls[c].set, vcalls[c].outs, 1)
        /\ Len(Errors) = Cardinality(FailingCalls)

C20_Witness ==
    /\ pc = "done"
    /\ Len(vcalls) = 3
    /\ Cardinality(FailingCalls) = 2
    /\ Len(Errors) = 2
    /\ SetFailures(vcalls[1].set, vcalls[1].outs, 1) = 2
    /\ SetFailures(vcalls[2].set, vcalls[2].outs, 1) = 0

\* no error of the batch is itself a batch
Flat(verr) == \A i \in 1..Len(verr.Errors) : verr.Errors[i].kind # "batch"

\* C21: after any sequence of Add, AddError and Merge calls from an empty
\* ValidationErrors, with argument batches built the same way, no element of
\* the Errors list of a batch is itself a batch.
C21_BatchesAreFlat == Flat(target.verr) /\ Flat(arg.verr)

C21_Witness ==
    /\ lastCall = "AddError batch"
    /\ Len(arg.verr.Errors) = 2
    /\ Len(target.verr.Errors) = 3
    /\ Flat(target.verr)

\* C22: the Errors collection only grows by appending: every step, before and
\* during the run, leaves the records it finds as a prefix of the collection.
C22_ErrorsAppendOnly ==
    [][/\ Len(Errors') >= Len(Errors)
       /\ SubSeq(Errors', 1, Len(Errors)) = Errors]_vars

C22_Witness ==
    /\ pc = "done"
    /\ Len(Errors) = 3
    /\ reported[1].at = "idle"
    /\ reported[3].at = "runRange"
    /\ Errors[1] = reported[1].rec

\* the record of the ReportError call a step makes
NewReport == reported'[Len(reported')].rec

\* a step is a ReportError call
ReportErrorCalled == reported' # reported

\* C23 (the claim as stated): each ReportError call appends exactly one record
\* to Errors and leaves the Stack unchanged; the message of the record ends
\* with a suffix that names the expression on top of the Stack, or with
\* " (top level)" when the Stack is empty.
C23_ReportErrorNamesCurrent ==
    [][ReportErrorCalled =>
          /\ Errors' = Append(Errors, NewReport)
          /\ Stack' = Stack
          /\ Len(reported') = Len(reported) + 1
          /\ IF Stack = <<>>
             THEN SubSeq(NewReport.msg, 2, Len(NewReport.msg)) = <<" (top level)">>
             ELSE SubSeq(NewReport.msg, 2, Len(NewReport.msg))
                      = <<" in ", EvalName(Stack[Len(Stack)])>>
                  /\ EvalName(Stack[Len(Stack)]) # ""]_vars

\* C23 (amended): each ReportError call appends exactly one record to Errors
\* and leaves the Stack unchanged; the message of the record ends with
\* " in <name>" for the expression on top of the Stack when its EvalName is
\* not empty, with no suffix when its EvalName is empty, and with
\* " (top level)" when the Stack is empty.
C23_ReportErrorSuffix ==
    [][ReportErrorCalled =>
          /\ Errors' = Append(Errors, NewReport)
          /\ Stack' = Stack
          /\ Len(reported') = Len(reported) + 1
          /\ SubSeq(NewReport.msg, 2, Len(NewReport.msg)) =
                IF Stack = <<>> THEN <<" (top level)">>
                ELSE IF EvalName(Stack[Len(Stack)]) = "" THEN <<>>
                ELSE <<" in ", EvalName(Stack[Len(Stack)])>>]_vars

C23_Witness ==
    /\ Len(Stack) = 1
    /\ EvalName(Stack[1]) = ""
    /\ Len(reported) = 3
    /\ reported[3].at = "runRange"
    /\ Len(reported[3].rec.msg) = 1
    /\ Len(reported[2].rec.msg) = 3
    /\ Errors[3] = reported[3].rec

\* Values, Format, Pattern, Minimum, Maximum, MinLength and MaxLength are unset
OthersUnset(v) ==
    /\ v.Values = <<>>
    /\ v.Format = "" /\ v.Pattern = ""
    /\ v.Minimum = Nil /\ v.Maximum = Nil
    /\ v.MinLength = Nil /\ v.MaxLength = Nil

\* C24: HasRequiredOnly returns true if and only if Values, Format, Pattern,
\* Minimum, Maximum, MinLength and MaxLength are all unset.
C24_HasRequiredOnlyIffOthersUnset ==
    requiredOnly.called => (requiredOnly.value <=> OthersUnset(validation))

\* C25: whenever RunDSL returns no error, Context.Errors holds no record,
\* on every return path.
C25_NilReturnMeansNoErrors ==
    (pc = "done" /\ result.kind = "nil") => Len(Errors) = 0

\* the Errors and Exprs lists of the batch pair up as its history says: same
\* length, and entry i is the error with the expression it was added for;
\* Error() then renders one line per error
WellFormed(b) ==
    /\ Len(b.verr.Errors) = Len(b.verr.Exprs)
    /\ Len(b.verr.Errors) = Len(b.log)
    /\ \A i \in 1..Len(b.log) :
          b.log[i] = Entry(b.verr.Errors[i], b.verr.Exprs[i])
    /\ Len(RenderVerr(b.verr)) = Len(b.verr.Errors)

\* C26: in every ValidationErrors reached by Add, AddError and Merge calls
\* from an empty batch, Errors and Exprs have the same length and Exprs[i] is
\* the owner recorded with error i, so Error() never indexes past the end of
\* Exprs.
C26_ErrorsAndExprsPairUp == WellFormed(target) /\ WellFormed(arg)

C26_Witness ==
    /\ lastCall = "Merge"
    /\ Len(arg.verr.Errors) = 2
    /\ Len(target.verr.Exprs) = 3
    /\ target.verr.Exprs[1] # target.verr.Exprs[2]
    /\ WellFormed(target)

\* a validator of the set of validateSet call c returned a non-nil error
ReturnedError(c) ==
    \E i \in 1..Len(vcalls[c].set) :
        IsValidator(vcalls[c].set[i]) /\ vcalls[c].outs[i].kind # "nil"

\* C27: when Validate of an expression of a set returns a non-nil error, be it
\* a ValidationErrors with no entry, validateSet records an error for the set
\* and no Finalize is invoked in the run.
C27_ValidatorFailureNeverLost ==
    \A c \in 1..Len(vcalls) :
        ReturnedError(c) => (vcalls[c].rec > 0 /\ finalized = <<>>)

====
